---------------------------- MODULE Spec2Model ----------------------------
(***************************************************************************)
(* Model of the in-memory key-value HTTP test server (src/main.go).        *)
(*                                                                         *)
(* The program state is the package-level map `storage` and the            *)
(* sync.RWMutex `mutex`.  Every inbound request is served by its own       *)
(* goroutine running storageHandler, which dispatches to getHandler,       *)
(* setHandler, putHandler or deleteHandler.  Each statement of a handler   *)
(* that touches the mutex or the map is one step of the model; purely      *)
(* local statements are folded into the step that precedes them, except    *)
(* the body decoding, which is kept a step of its own.                     *)
(***************************************************************************)
EXTENDS Integers, Sequences, FiniteSets, TLC

(***************************************************************************)
(* Bounds and input alphabets.                                             *)
(***************************************************************************)
\* number of goroutines serving requests at the same time
NumHandlers == 2

Proc == 1..NumHandlers
NoProc == 0

\* key := strings.TrimPrefix(r.URL.Path, "/storage/")
Keys == {"", "a", "b"}

\* r.Method; PATCH stands for every verb the switch has no case for
Methods == {"GET", "POST", "PUT", "DELETE", "PATCH"}

\* request bodies: two well-formed JSON texts, one malformed one
NoBody == ""
Bodies == {"1", "null", "{"}

\* the requests a client may send
AllRequests ==
    [method : {"POST", "PUT"}, key : Keys \ {""}, body : Bodies]
        \cup [method : {"GET", "DELETE", "PATCH"}, key : Keys \ {""}, body : {NoBody}]
        \cup [method : Methods, key : {""}, body : {NoBody}]

\* the requests sent when goroutines run concurrently: every request on the
\* key "a" and on the empty key; on the key "b", which stands for the rest
\* of the map, the requests that put it (PUT of a well-formed body) and
\* remove it (DELETE)
Requests ==
    {r \in AllRequests :
        r.key = "b" => (r.method \in {"PUT", "DELETE"} /\ r.body # "{")}

NoReq == [method |-> "", key |-> "", body |-> NoBody]

(***************************************************************************)
(* Values of type interface{} as produced by encoding/json.                *)
(***************************************************************************)
Nil == [kind |-> "nil", num |-> 0]
Number(n) == [kind |-> "number", num |-> n]
Values == {Nil, Number(1)}

\* json.NewDecoder(r.Body).Decode(&value): the decoded value, or an error
Decode(body) ==
    CASE body = "1"    -> [err |-> FALSE, value |-> Number(1)]
      [] body = "null" -> [err |-> FALSE, value |-> Nil]
      [] OTHER         -> [err |-> TRUE, value |-> Nil]

\* the JSON text json.Marshal writes for a stored value
Encode(v) ==
    CASE v.kind = "number" /\ v.num = 1 -> "1"
      [] v.kind = "nil"                 -> "null"
      [] OTHER                          -> "?"

(***************************************************************************)
(* Go map operations.                                                      *)
(***************************************************************************)
EmptyMap == [k \in {} |-> Nil]

\* variant: `m[k] != nil` taken for presence
MapHas_NonNil(m, k) == k \in DOMAIN m /\ m[k] # Nil

\* _, exists := m[k]
MapHas(m, k) == k \in DOMAIN m

\* value, _ := m[k]  (the zero value nil when k is absent)
MapGet(m, k) == IF k \in DOMAIN m THEN m[k] ELSE Nil

\* variant: the map is replaced by one holding k alone
MapSet_Replace(m, k, v) == [x \in {k} |-> v]

\* m[k] = v
MapSet(m, k, v) == [x \in DOMAIN m \cup {k} |-> IF x = k THEN v ELSE m[x]]

\* variant: the whole map is cleared instead of one key
MapDelete_Clear(m, k) == [x \in {} |-> Nil]

\* delete(m, k)
MapDelete(m, k) == [x \in DOMAIN m \ {k} |-> m[x]]

(***************************************************************************)
(* HTTP responses.                                                         *)
(***************************************************************************)
StatusOK == 200
StatusCreated == 201
StatusNoContent == 204
StatusBadRequest == 400
StatusNotFound == 404
StatusMethodNotAllowed == 405
StatusConflict == 409

\* nothing written yet
NoResp == [code |-> 0, text |-> "", key |-> "", json |-> ""]

\* http.Error(w, text, code)
HttpError(text, code) == [code |-> code, text |-> text, key |-> "", json |-> ""]

\* w.WriteHeader(code)
WriteHeader(code) == [code |-> code, text |-> "", key |-> "", json |-> ""]

\* json.Marshal(map[string]interface{}{key: value}); w.Write(jsonData)
WriteJSON(key, v) == [code |-> StatusOK, text |-> "", key |-> key, json |-> Encode(v)]

(***************************************************************************)
(* State.                                                                  *)
(***************************************************************************)
VARIABLES
    storage,    \* the map `storage`
    mutexW,     \* goroutine holding `mutex` for writing, or NoProc
    mutexR,     \* goroutines holding `mutex` for reading
    pc,         \* position of each goroutine in its handler
    req,        \* the request a goroutine is serving
    value,      \* local `value` of the running handler
    exists,     \* local `exists` of the running handler
    resp,       \* what the goroutine has written to its ResponseWriter
    \* history variables, read by the properties only
    ref,        \* the reference store: key -> Absent or the value last put
    pre,        \* the map as it was when the goroutine got the mutex
    lin,        \* reference entry of the key when getHandler looked it up
    wrote,      \* the goroutine has assigned to or deleted from the map
                \* during this request
    seqRef      \* sequential reference map and the outcome it gives the
                \* call in progress (driven by SpecSeq only)

\* a write to goroutine p's ResponseWriter: the first status written stands
Reply(p, r) == [resp EXCEPT ![p] = IF resp[p].code = 0 THEN r ELSE resp[p]]

vars == <<storage, mutexW, mutexR, pc, req, value, exists, resp,
          ref, pre, lin, wrote, seqRef>>

Absent == [kind |-> "absent", num |-> 0]

\* no call has been given to the sequential reference map
NoOutcome == [kind |-> "none", num |-> 0]

TypeOK ==
    /\ DOMAIN storage \subseteq Keys
    /\ \A k \in DOMAIN storage : storage[k] \in Values
    /\ mutexW \in Proc \cup {NoProc}
    /\ mutexR \subseteq Proc
    /\ req \in [Proc -> AllRequests \cup {NoReq}]
    /\ value \in [Proc -> Values]
    /\ exists \in [Proc -> BOOLEAN]
    /\ ref \in [Keys -> Values \cup {Absent}]
    /\ wrote \in [Proc -> BOOLEAN]

Init ==
    /\ storage = EmptyMap
    /\ mutexW = NoProc
    /\ mutexR = {}
    /\ pc = [p \in Proc |-> "idle"]
    /\ req = [p \in Proc |-> NoReq]
    /\ value = [p \in Proc |-> Nil]
    /\ exists = [p \in Proc |-> FALSE]
    /\ resp = [p \in Proc |-> NoResp]
    /\ ref = [k \in Keys |-> Absent]
    /\ pre = [p \in Proc |-> EmptyMap]
    /\ lin = [p \in Proc |-> Absent]
    /\ wrote = [p \in Proc |-> FALSE]
    /\ seqRef = [store |-> [k \in Keys |-> Absent], out |-> NoOutcome]

(***************************************************************************)
(* sync.RWMutex.                                                           *)
(***************************************************************************)
\* variant: Lock does not wait for the readers to leave
CanLock_IgnoreReaders == mutexW = NoProc

\* mutex.Lock() returns only when no goroutine holds the mutex
CanLock == mutexW = NoProc /\ mutexR = {}

\* variant: a plain sync.Mutex, readers exclude each other
CanRLock_Exclusive == mutexW = NoProc /\ mutexR = {}

\* mutex.RLock() returns only when no goroutine holds it for writing
CanRLock == mutexW = NoProc

\* mutex.Lock() in goroutine p, continuing at `next`
Lock(p, next) ==
    /\ CanLock
    /\ mutexW' = p
    /\ pc' = [pc EXCEPT ![p] = next]
    /\ pre' = [pre EXCEPT ![p] = storage]
    /\ UNCHANGED <<storage, mutexR, req, value, exists, resp, ref, lin, wrote>>
    /\ UNCHANGED seqRef

\* mutex.Unlock()
Unlock(p) == mutexW' = IF mutexW = p THEN NoProc ELSE mutexW

(***************************************************************************)
(* storageHandler: the empty-key check and the dispatch on r.Method.       *)
(***************************************************************************)
\* variant: the POST and PUT cases of the switch are exchanged
Dispatch_Swapped(method) ==
    CASE method = "GET"    -> "get_rlock"
      [] method = "PUT"    -> "set_lock"
      [] method = "POST"   -> "put_decode"
      [] method = "DELETE" -> "del_lock"
      [] OTHER             -> "done"

\* the handler (its first position) the switch on r.Method selects
Dispatch(method) ==
    CASE method = "GET"    -> "get_rlock"
      [] method = "POST"   -> "set_lock"
      [] method = "PUT"    -> "put_decode"
      [] method = "DELETE" -> "del_lock"
      [] OTHER             -> "done"

\* variant: the check for the empty key is missing
Serve_NoKeyCheck(p, r) ==
    /\ pc[p] = "idle"
    /\ req' = [req EXCEPT ![p] = r]
    /\ pc' = [pc EXCEPT ![p] = Dispatch(r.method)]
    /\ resp' = [resp EXCEPT ![p] =
           IF Dispatch(r.method) = "done"
           THEN HttpError("Unsupported method", StatusMethodNotAllowed)
           ELSE NoResp]
    /\ UNCHANGED <<storage, mutexW, mutexR, value, exists, ref, pre, lin, wrote>>

\* goroutine p runs storageHandler on request r, up to the handler call
Serve(p, r) ==
    /\ pc[p] = "idle"
    /\ req' = [req EXCEPT ![p] = r]
    /\ IF r.key = ""
       THEN /\ pc' = [pc EXCEPT ![p] = "done"]
            /\ resp' = Reply(p, HttpError("Required param key is empty", StatusBadRequest))
       ELSE /\ pc' = [pc EXCEPT ![p] = Dispatch(r.method)]
            /\ resp' = [resp EXCEPT ![p] =
                   IF Dispatch(r.method) = "done"
                   THEN HttpError("Unsupported method", StatusMethodNotAllowed)
                   ELSE NoResp]
    /\ UNCHANGED <<storage, mutexW, mutexR, value, exists, ref, pre, lin, wrote>>

storageHandler(p) ==
    /\ \E r \in Requests : Serve(p, r)
    /\ UNCHANGED seqRef

(***************************************************************************)
(* setHandler (POST).                                                      *)
(***************************************************************************)
\* variant: setHandler takes the mutex with RLock instead of Lock
setLock_Shared(p) ==
    /\ pc[p] = "set_lock"
    /\ CanRLock
    /\ mutexR' = mutexR \cup {p}
    /\ pc' = [pc EXCEPT ![p] = "set_check"]
    /\ pre' = [pre EXCEPT ![p] = storage]
    /\ UNCHANGED <<storage, mutexW, req, value, exists, resp, ref, lin, wrote>>
    /\ UNCHANGED seqRef

setLock(p) ==
    /\ pc[p] = "set_lock"
    /\ Lock(p, "set_check")

\* variant: the mutex is held for the check only and released before the
\* decoding and the insert
setCheck_ReleasesLock(p) ==
    /\ pc[p] = "set_check"
    /\ exists' = [exists EXCEPT ![p] = MapHas(storage, req[p].key)]
    /\ mutexW' = NoProc
    /\ IF MapHas(storage, req[p].key)
       THEN /\ resp' = Reply(p, HttpError("Resource already exists", StatusConflict))
            /\ pc' = [pc EXCEPT ![p] = "set_unlock"]
       ELSE /\ resp' = resp
            /\ pc' = [pc EXCEPT ![p] = "set_decode"]
    /\ UNCHANGED <<storage, mutexR, req, value, ref, pre, lin, wrote>>
    /\ UNCHANGED seqRef

\* variant: the `return` after the 409 is missing
setCheck_NoReturn(p) ==
    /\ pc[p] = "set_check"
    /\ exists' = [exists EXCEPT ![p] = MapHas(storage, req[p].key)]
    /\ resp' = IF MapHas(storage, req[p].key)
               THEN Reply(p, HttpError("Resource already exists", StatusConflict))
               ELSE resp
    /\ pc' = [pc EXCEPT ![p] = "set_decode"]
    /\ UNCHANGED <<storage, mutexW, mutexR, req, value, ref, pre, lin, wrote>>
    /\ UNCHANGED seqRef

\* if _, exists := storage[key]; exists { 409; return }
setCheck(p) ==
    /\ pc[p] = "set_check"
    /\ exists' = [exists EXCEPT ![p] = MapHas(storage, req[p].key)]
    /\ IF MapHas(storage, req[p].key)
       THEN /\ resp' = Reply(p, HttpError("Resource already exists", StatusConflict))
            /\ pc' = [pc EXCEPT ![p] = "set_unlock"]
       ELSE /\ resp' = resp
            /\ pc' = [pc EXCEPT ![p] = "set_decode"]
    /\ UNCHANGED <<storage, mutexW, mutexR, req, value, ref, pre, lin, wrote>>
    /\ UNCHANGED seqRef

\* variant: the `return` after the 400 is missing
setDecode_NoReturn(p) ==
    /\ pc[p] = "set_decode"
    /\ value' = [value EXCEPT ![p] = Decode(req[p].body).value]
    /\ resp' = IF Decode(req[p].body).err
               THEN Reply(p, HttpError("Invalid request body", StatusBadRequest))
               ELSE resp
    /\ pc' = [pc EXCEPT ![p] = "set_store"]
    /\ UNCHANGED <<storage, mutexW, mutexR, req, exists, ref, pre, lin, wrote>>
    /\ UNCHANGED seqRef

\* if err := json.NewDecoder(r.Body).Decode(&value); err != nil { 400; return }
setDecode(p) ==
    /\ pc[p] = "set_decode"
    /\ value' = [value EXCEPT ![p] = Decode(req[p].body).value]
    /\ IF Decode(req[p].body).err
       THEN /\ resp' = Reply(p, HttpError("Invalid request body", StatusBadRequest))
            /\ pc' = [pc EXCEPT ![p] = "set_unlock"]
       ELSE /\ resp' = resp
            /\ pc' = [pc EXCEPT ![p] = "set_store"]
    /\ UNCHANGED <<storage, mutexW, mutexR, req, exists, ref, pre, lin, wrote>>
    /\ UNCHANGED seqRef

\* storage[key] = value; w.WriteHeader(http.StatusCreated)
setStore(p) ==
    /\ pc[p] = "set_store"
    /\ storage' = MapSet(storage, req[p].key, value[p])
    /\ resp' = Reply(p, WriteHeader(StatusCreated))
    /\ pc' = [pc EXCEPT ![p] = "set_unlock"]
    /\ ref' = [ref EXCEPT ![req[p].key] = Decode(req[p].body).value]
    /\ wrote' = [wrote EXCEPT ![p] = TRUE]
    /\ UNCHANGED <<mutexW, mutexR, req, value, exists, pre, lin>>
    /\ UNCHANGED seqRef

\* variant: Unlock is the last statement instead of deferred, so the early
\* returns leave the mutex locked
setUnlock_OnlyOnSuccess(p) ==
    /\ pc[p] = "set_unlock"
    /\ mutexW' = IF resp[p].code = StatusCreated /\ mutexW = p THEN NoProc ELSE mutexW
    /\ pc' = [pc EXCEPT ![p] = "done"]
    /\ pre' = [pre EXCEPT ![p] = EmptyMap]
    /\ UNCHANGED <<storage, mutexR, req, value, exists, resp, ref, lin, wrote>>
    /\ UNCHANGED seqRef

\* defer mutex.Unlock()
setUnlock(p) ==
    /\ pc[p] = "set_unlock"
    /\ Unlock(p)
    /\ pc' = [pc EXCEPT ![p] = "done"]
    /\ pre' = [pre EXCEPT ![p] = EmptyMap]
    /\ UNCHANGED <<storage, mutexR, req, value, exists, resp, ref, lin, wrote>>
    /\ UNCHANGED seqRef

(***************************************************************************)
(* putHandler (PUT).                                                       *)
(***************************************************************************)
\* if err := json.NewDecoder(r.Body).Decode(&value); err != nil { 400; return }
putDecode(p) ==
    /\ pc[p] = "put_decode"
    /\ value' = [value EXCEPT ![p] = Decode(req[p].body).value]
    /\ IF Decode(req[p].body).err
       THEN /\ resp' = Reply(p, HttpError("Invalid request body", StatusBadRequest))
            /\ pc' = [pc EXCEPT ![p] = "done"]
       ELSE /\ resp' = resp
            /\ pc' = [pc EXCEPT ![p] = "put_lock"]
    /\ UNCHANGED <<storage, mutexW, mutexR, req, exists, ref, pre, lin, wrote>>
    /\ UNCHANGED seqRef

putLock(p) ==
    /\ pc[p] = "put_lock"
    /\ Lock(p, "put_store")

\* variant: PUT only replaces the value of a key that is present
putStore_UpdateOnly(p) ==
    /\ pc[p] = "put_store"
    /\ storage' = IF MapHas(storage, req[p].key)
                  THEN MapSet(storage, req[p].key, value[p])
                  ELSE storage
    /\ pc' = [pc EXCEPT ![p] = "put_unlock"]
    /\ ref' = [ref EXCEPT ![req[p].key] = Decode(req[p].body).value]
    /\ wrote' = [wrote EXCEPT ![p] = TRUE]
    /\ UNCHANGED <<mutexW, mutexR, req, value, exists, resp, pre, lin>>
    /\ UNCHANGED seqRef

\* storage[key] = value
putStore(p) ==
    /\ pc[p] = "put_store"
    /\ storage' = MapSet(storage, req[p].key, value[p])
    /\ pc' = [pc EXCEPT ![p] = "put_unlock"]
    /\ ref' = [ref EXCEPT ![req[p].key] = Decode(req[p].body).value]
    /\ wrote' = [wrote EXCEPT ![p] = TRUE]
    /\ UNCHANGED <<mutexW, mutexR, req, value, exists, resp, pre, lin>>
    /\ UNCHANGED seqRef

\* variant: PUT answers 201 Created
putUnlock_Created(p) ==
    /\ pc[p] = "put_unlock"
    /\ Unlock(p)
    /\ resp' = Reply(p, WriteHeader(StatusCreated))
    /\ pc' = [pc EXCEPT ![p] = "done"]
    /\ pre' = [pre EXCEPT ![p] = EmptyMap]
    /\ UNCHANGED <<storage, mutexR, req, value, exists, ref, lin, wrote>>
    /\ UNCHANGED seqRef

\* mutex.Unlock(); w.WriteHeader(http.StatusOK)
putUnlock(p) ==
    /\ pc[p] = "put_unlock"
    /\ Unlock(p)
    /\ resp' = Reply(p, WriteHeader(StatusOK))
    /\ pc' = [pc EXCEPT ![p] = "done"]
    /\ pre' = [pre EXCEPT ![p] = EmptyMap]
    /\ UNCHANGED <<storage, mutexR, req, value, exists, ref, lin, wrote>>
    /\ UNCHANGED seqRef

(***************************************************************************)
(* getHandler (GET).                                                       *)
(***************************************************************************)
\* mutex.RLock()
getRLock(p) ==
    /\ pc[p] = "get_rlock"
    /\ CanRLock
    /\ mutexR' = mutexR \cup {p}
    /\ pc' = [pc EXCEPT ![p] = "get_read"]
    /\ UNCHANGED <<storage, mutexW, req, value, exists, resp, ref, pre, lin, wrote>>
    /\ UNCHANGED seqRef

\* value, exists := storage[key]
getRead(p) ==
    /\ pc[p] = "get_read"
    /\ value' = [value EXCEPT ![p] = MapGet(storage, req[p].key)]
    /\ exists' = [exists EXCEPT ![p] = MapHas(storage, req[p].key)]
    /\ lin' = [lin EXCEPT ![p] = ref[req[p].key]]
    /\ pc' = [pc EXCEPT ![p] = "get_runlock"]
    /\ UNCHANGED <<storage, mutexW, mutexR, req, resp, ref, pre, wrote>>
    /\ UNCHANGED seqRef

\* variant: a stored nil is taken for a missing key
getResponse_NilIsMissing(key, found, v) ==
    IF ~found \/ v = Nil
    THEN HttpError("No value found", StatusNotFound)
    ELSE WriteJSON(key, v)

\* what getHandler writes after the lookup
getResponse(key, found, v) ==
    IF ~found
    THEN HttpError("No value found", StatusNotFound)
    ELSE WriteJSON(key, v)

\* mutex.RUnlock(); if !exists { 404; return }; ...; w.Write(jsonData)
getRUnlock(p) ==
    /\ pc[p] = "get_runlock"
    /\ mutexR' = mutexR \ {p}
    /\ resp' = Reply(p, getResponse(req[p].key, exists[p], value[p]))
    /\ pc' = [pc EXCEPT ![p] = "done"]
    /\ UNCHANGED <<storage, mutexW, req, value, exists, ref, pre, lin, wrote>>
    /\ UNCHANGED seqRef

(***************************************************************************)
(* deleteHandler (DELETE).                                                 *)
(***************************************************************************)
delLock(p) ==
    /\ pc[p] = "del_lock"
    /\ Lock(p, "del_check")

\* if _, exists := storage[key]; !exists { 404; return }
delCheck(p) ==
    /\ pc[p] = "del_check"
    /\ exists' = [exists EXCEPT ![p] = MapHas(storage, req[p].key)]
    /\ IF ~MapHas(storage, req[p].key)
       THEN /\ resp' = Reply(p, HttpError("Data not found", StatusNotFound))
            /\ pc' = [pc EXCEPT ![p] = "del_unlock"]
       ELSE /\ resp' = resp
            /\ pc' = [pc EXCEPT ![p] = "del_delete"]
    /\ UNCHANGED <<storage, mutexW, mutexR, req, value, ref, pre, lin, wrote>>
    /\ UNCHANGED seqRef

\* variant: delete(storage, "key") with the literal instead of the variable
delDelete_LiteralKey(p) ==
    /\ pc[p] = "del_delete"
    /\ storage' = MapDelete(storage, "key")
    /\ resp' = Reply(p, WriteHeader(StatusNoContent))
    /\ pc' = [pc EXCEPT ![p] = "del_unlock"]
    /\ ref' = [ref EXCEPT ![req[p].key] = Absent]
    /\ wrote' = [wrote EXCEPT ![p] = TRUE]
    /\ UNCHANGED <<mutexW, mutexR, req, value, exists, pre, lin>>
    /\ UNCHANGED seqRef

\* delete(storage, key); w.WriteHeader(http.StatusNoContent)
delDelete(p) ==
    /\ pc[p] = "del_delete"
    /\ storage' = MapDelete(storage, req[p].key)
    /\ resp' = Reply(p, WriteHeader(StatusNoContent))
    /\ pc' = [pc EXCEPT ![p] = "del_unlock"]
    /\ ref' = [ref EXCEPT ![req[p].key] = Absent]
    /\ wrote' = [wrote EXCEPT ![p] = TRUE]
    /\ UNCHANGED <<mutexW, mutexR, req, value, exists, pre, lin>>
    /\ UNCHANGED seqRef

\* variant: Unlock is the last statement instead of deferred, so the 404
\* return leaves the mutex locked
delUnlock_OnlyOnSuccess(p) ==
    /\ pc[p] = "del_unlock"
    /\ mutexW' = IF resp[p].code = StatusNoContent /\ mutexW = p THEN NoProc ELSE mutexW
    /\ pc' = [pc EXCEPT ![p] = "done"]
    /\ pre' = [pre EXCEPT ![p] = EmptyMap]
    /\ UNCHANGED <<storage, mutexR, req, value, exists, resp, ref, lin, wrote>>
    /\ UNCHANGED seqRef

\* defer mutex.Unlock()
delUnlock(p) ==
    /\ pc[p] = "del_unlock"
    /\ Unlock(p)
    /\ pc' = [pc EXCEPT ![p] = "done"]
    /\ pre' = [pre EXCEPT ![p] = EmptyMap]
    /\ UNCHANGED <<storage, mutexR, req, value, exists, resp, ref, lin, wrote>>
    /\ UNCHANGED seqRef

(***************************************************************************)
(* The serving goroutine ends; the next request gets a fresh one.          *)
(***************************************************************************)
Finish(p) ==
    /\ pc[p] = "done"
    /\ pc' = [pc EXCEPT ![p] = "idle"]
    /\ req' = [req EXCEPT ![p] = NoReq]
    /\ value' = [value EXCEPT ![p] = Nil]
    /\ exists' = [exists EXCEPT ![p] = FALSE]
    /\ resp' = [resp EXCEPT ![p] = NoResp]
    /\ lin' = [lin EXCEPT ![p] = Absent]
    /\ wrote' = [wrote EXCEPT ![p] = FALSE]
    /\ UNCHANGED <<storage, mutexW, mutexR, ref, pre>>
    /\ UNCHANGED seqRef

\* a step of goroutine p inside one of the four handlers
Steps(p) ==
    \/ setLock(p) \/ setCheck(p) \/ setDecode(p) \/ setStore(p) \/ setUnlock(p)
    \/ putDecode(p) \/ putLock(p) \/ putStore(p) \/ putUnlock(p)
    \/ getRLock(p) \/ getRead(p) \/ getRUnlock(p)
    \/ delLock(p) \/ delCheck(p) \/ delDelete(p) \/ delUnlock(p)

Handler(p) == storageHandler(p) \/ Steps(p)

Next == \E p \in Proc : Handler(p) \/ Finish(p)

Spec == Init /\ [][Next]_vars

(***************************************************************************)
(* Concurrent creation: starting from the empty store, every goroutine     *)
(* serves one request on the key "a", a POST with a well-formed body or a  *)
(* GET; no PUT and no DELETE runs.                                         *)
(***************************************************************************)
CreateRequests ==
    {r \in Requests :
        /\ r.key = "a"
        /\ \/ r.method = "POST" /\ ~Decode(r.body).err
           \/ r.method = "GET"}

createCall(p) ==
    /\ \E r \in CreateRequests : Serve(p, r)
    /\ UNCHANGED seqRef

NextCreate ==
    \E p \in Proc :
        \/ createCall(p)
        \/ setLock(p) \/ setCheck(p) \/ setDecode(p) \/ setStore(p) \/ setUnlock(p)
        \/ getRLock(p) \/ getRead(p) \/ getRUnlock(p)

SpecCreate == Init /\ [][NextCreate]_vars

(***************************************************************************)
(* Sequential use: a request is taken up only when no other request is in  *)
(* progress, its key is not empty, its verb is one of the four operations  *)
(* and its body, if any, is well formed.  The reference map of section 4.1 *)
(* performs the same call in one step.                                     *)
(***************************************************************************)
SeqRequests ==
    {r \in AllRequests :
        /\ r.key # ""
        /\ r.method \in {"GET", "POST", "PUT", "DELETE"}
        /\ r.method \in {"POST", "PUT"} => ~Decode(r.body).err}

Success == [kind |-> "success", num |-> 0]
AlreadyExists == [kind |-> "AlreadyExists", num |-> 0]
NotFound == [kind |-> "NotFound", num |-> 0]

\* Create / Upsert / Read / Delete on the reference map m (key -> Absent or
\* a value): the map afterwards and the outcome reported
RefCall(m, r) ==
    CASE r.method = "POST" ->
            IF m[r.key] # Absent
            THEN [store |-> m, out |-> AlreadyExists]
            ELSE [store |-> [m EXCEPT ![r.key] = Decode(r.body).value],
                  out |-> Success]
      [] r.method = "PUT" ->
            [store |-> [m EXCEPT ![r.key] = Decode(r.body).value], out |-> Success]
      [] r.method = "GET" ->
            [store |-> m, out |-> IF m[r.key] = Absent THEN NotFound ELSE m[r.key]]
      [] r.method = "DELETE" ->
            IF m[r.key] = Absent
            THEN [store |-> m, out |-> NotFound]
            ELSE [store |-> [m EXCEPT ![r.key] = Absent], out |-> Success]

\* the outcome a response stands for
OutcomeOf(r) ==
    CASE r.code \in {StatusCreated, StatusNoContent} -> Success
      [] r.code = StatusOK /\ r.json = ""             -> Success
      [] r.code = StatusOK /\ ~Decode(r.json).err     -> Decode(r.json).value
      [] r.code = StatusConflict                      -> AlreadyExists
      [] r.code = StatusNotFound                      -> NotFound
      [] OTHER                                        -> NoOutcome

seqCall(p) ==
    /\ \A q \in Proc : pc[q] = "idle"
    /\ \E r \in SeqRequests :
        /\ Serve(p, r)
        /\ seqRef' = RefCall(seqRef.store, r)

NextSeq ==
    \E p \in Proc :
        \/ seqCall(p)
        \/ setLock(p) \/ setCheck(p) \/ setDecode(p) \/ setStore(p) \/ setUnlock(p)
        \/ putDecode(p) \/ putLock(p) \/ putStore(p) \/ putUnlock(p)
        \/ getRLock(p) \/ getRead(p) \/ getRUnlock(p)
        \/ delLock(p) \/ delCheck(p) \/ delDelete(p) \/ delUnlock(p)
        \/ Finish(p)

SpecSeq == Init /\ [][NextSeq]_vars

(***************************************************************************)
(* A finite set of requests: every goroutine serves at most one request,   *)
(* of any kind, and a goroutine that can take a step of its handler        *)
(* eventually takes one (the Go scheduler runs every runnable goroutine,   *)
(* and the mutex is handed to a goroutine blocked on it once it is free).  *)
(***************************************************************************)
NextLive == \E p \in Proc : storageHandler(p) \/ Steps(p)

SpecLive == Init /\ [][NextLive]_vars /\ \A p \in Proc : WF_vars(Steps(p))

(***************************************************************************)
(* Properties.                                                             *)
(***************************************************************************)
\* the goroutines that have been handed a POST
Called == {p \in Proc : req[p].method = "POST"}
Succeeded == {p \in Called : pc[p] = "done" /\ resp[p].code = StatusCreated}
Conflicted == {p \in Called : pc[p] = "done" /\ resp[p].code = StatusConflict}

\* C1: when every POST issued on the absent key "a" has returned, exactly one
\* of them reported 201 Created, all the others reported 409 Conflict, and
\* the map holds the value of the one that reported 201.
C1_OneCreateWins ==
    (Called # {} /\ \A p \in Called : pc[p] = "done") =>
        /\ Cardinality(Succeeded) = 1
        /\ Conflicted = Called \ Succeeded
        /\ \A p \in Succeeded :
            /\ MapHas(storage, "a")
            /\ storage["a"] = Decode(req[p].body).value

\* all goroutines have returned from concurrent POSTs with different values
C1_Witness ==
    /\ Called = Proc
    /\ \A p \in Proc : pc[p] = "done"
    /\ \E p, q \in Proc :
        /\ resp[p].code = StatusCreated
        /\ resp[q].code = StatusConflict
        /\ req[p].body # req[q].body

\* C2: a POST with a well-formed body, at the end of its critical section,
\* has reported 201 exactly when the key was absent when it got the mutex,
\* and then the key maps to its value; otherwise it has reported 409 and the
\* map is what it was, so the key still maps to its previous value.
C2_CreateExclusive ==
    \A p \in Proc :
        (pc[p] = "set_unlock" /\ ~Decode(req[p].body).err) =>
            IF MapHas(pre[p], req[p].key)
            THEN /\ resp[p].code = StatusConflict
                 /\ storage = pre[p]
            ELSE /\ resp[p].code = StatusCreated
                 /\ MapHas(storage, req[p].key)
                 /\ storage[req[p].key] = Decode(req[p].body).value

\* a POST of a different value on a present key has reported 409
C2_Witness ==
    \E p \in Proc :
        /\ pc[p] = "set_unlock"
        /\ ~Decode(req[p].body).err
        /\ MapHas(pre[p], req[p].key)
        /\ pre[p][req[p].key] # Decode(req[p].body).value
        /\ resp[p].code = StatusConflict

\* C3: a GET that has returned reports what the reference store held for
\* its key at the instant of its lookup, which lies between its invocation
\* and its return: 404 when the key was absent (never inserted, or deleted
\* since), otherwise 200 with the one-member object whose value decodes to
\* the value put by the latest insertion.
C3_ReadLinearizable ==
    \A p \in Proc :
        (pc[p] = "done" /\ req[p].method = "GET" /\ req[p].key # "") =>
            IF lin[p] = Absent
            THEN resp[p].code = StatusNotFound
            ELSE /\ resp[p].code = StatusOK
                 /\ resp[p].key = req[p].key
                 /\ ~Decode(resp[p].json).err
                 /\ Decode(resp[p].json).value = lin[p]

\* a GET returns a value that a DELETE removed after the lookup
C3_Witness ==
    \E p \in Proc :
        /\ pc[p] = "done"
        /\ req[p].method = "GET"
        /\ resp[p].code = StatusOK
        /\ lin[p] = Nil
        /\ ~MapHas(storage, req[p].key)

\* C4: a PUT with a well-formed body never reports 404 or 409, has reported
\* 200 when it returns, and at the end of its critical section the key maps
\* to its value, whatever the map held before.
C4_UpsertAlwaysSucceeds ==
    \A p \in Proc :
        (req[p].method = "PUT" /\ req[p].key # "" /\ ~Decode(req[p].body).err) =>
            /\ resp[p].code \notin {StatusNotFound, StatusConflict}
            /\ pc[p] = "done" => resp[p].code = StatusOK
            /\ pc[p] = "put_unlock" =>
                /\ MapHas(storage, req[p].key)
                /\ storage[req[p].key] = Decode(req[p].body).value

\* a PUT has replaced a different value put before
C4_Witness ==
    \E p \in Proc :
        /\ pc[p] = "put_unlock"
        /\ MapHas(pre[p], req[p].key)
        /\ pre[p][req[p].key] # storage[req[p].key]

\* C5: a DELETE, at the end of its critical section, has reported 204
\* exactly when the key was present when it got the mutex, and then the key
\* is absent; otherwise it has reported 404 and the map is what it was.  A
\* GET that looked an absent key up reports 404.
C5_DeleteRemoves ==
    /\ \A p \in Proc :
        pc[p] = "del_unlock" =>
            IF MapHas(pre[p], req[p].key)
            THEN /\ resp[p].code = StatusNoContent
                 /\ ~MapHas(storage, req[p].key)
            ELSE /\ resp[p].code = StatusNotFound
                 /\ storage = pre[p]
    /\ \A p \in Proc :
        (pc[p] = "done" /\ req[p].method = "GET" /\ req[p].key # ""
            /\ lin[p] = Absent) => resp[p].code = StatusNotFound

\* a DELETE has removed a key while the other key is present
C5_Witness ==
    \E p \in Proc :
        /\ pc[p] = "del_unlock"
        /\ resp[p].code = StatusNoContent
        /\ MapHas(pre[p], req[p].key)
        /\ storage # EmptyMap

SuccessCodes == {StatusOK, StatusCreated, StatusNoContent}

\* C6: a request that has reported anything but success has not changed the
\* map: a handler that holds the mutex with an error written finds the map
\* as it was when it got the mutex, and a request that has returned an error
\* has executed no assignment to and no delete from the map.
C6_FailureLeavesStore ==
    \A p \in Proc :
        /\ (pc[p] \in {"set_unlock", "del_unlock"}
                /\ resp[p].code \notin SuccessCodes) => storage = pre[p]
        /\ (pc[p] = "done" /\ resp[p].code \notin SuccessCodes) => ~wrote[p]

\* a POST with a malformed body on an absent key leaves a non-empty map alone
C6_Witness ==
    \E p \in Proc :
        /\ pc[p] = "set_unlock"
        /\ resp[p].code = StatusBadRequest
        /\ storage # EmptyMap
        /\ storage = pre[p]

\* C7: a POST or PUT with a malformed body never holds the mutex, and has
\* reported 400 Invalid request body when it returns.
C7_DecodeBeforeStore ==
    \A p \in Proc :
        (req[p].method \in {"POST", "PUT"} /\ req[p].key # ""
            /\ Decode(req[p].body).err) =>
            /\ mutexW # p
            /\ pc[p] = "done" =>
                resp[p] = HttpError("Invalid request body", StatusBadRequest)

\* C8: a request with the empty key has reported 400 as soon as it is taken
\* up, holds the mutex in no mode and has changed nothing; the map never has
\* an entry for the empty key.
C8_EmptyKeyRejected ==
    /\ ~MapHas(storage, "")
    /\ \A p \in Proc :
        (req[p] # NoReq /\ req[p].key = "") =>
            /\ pc[p] = "done"
            /\ resp[p] = HttpError("Required param key is empty", StatusBadRequest)
            /\ mutexW # p
            /\ p \notin mutexR
            /\ ~wrote[p]

\* a request with the empty key has been rejected while the map has entries
C8_Witness ==
    \E p \in Proc :
        /\ req[p].method = "POST"
        /\ req[p].key = ""
        /\ pc[p] = "done"
        /\ storage # EmptyMap

SetPcs == {"set_lock", "set_check", "set_decode", "set_store", "set_unlock"}
PutPcs == {"put_decode", "put_lock", "put_store", "put_unlock"}
GetPcs == {"get_rlock", "get_read", "get_runlock"}
DelPcs == {"del_lock", "del_check", "del_delete", "del_unlock"}

\* the handler positions and the final statuses of the operation of a verb
HandlerOf(method) ==
    CASE method = "POST"   -> [pcs |-> SetPcs,
                               codes |-> {StatusCreated, StatusConflict, StatusBadRequest}]
      [] method = "PUT"    -> [pcs |-> PutPcs, codes |-> {StatusOK, StatusBadRequest}]
      [] method = "GET"    -> [pcs |-> GetPcs, codes |-> {StatusOK, StatusNotFound}]
      [] method = "DELETE" -> [pcs |-> DelPcs, codes |-> {StatusNoContent, StatusNotFound}]
      [] OTHER             -> [pcs |-> {}, codes |-> {StatusMethodNotAllowed}]

\* C9: a request with a non-empty key is inside the handler of its verb and
\* no other (POST setHandler, PUT putHandler, GET getHandler, DELETE
\* deleteHandler) until it returns with one of that operation's statuses; a
\* request with another verb has returned 405 at once, holds the mutex in
\* no mode and has changed nothing.
C9_DispatchByVerb ==
    \A p \in Proc :
        (req[p] # NoReq /\ req[p].key # "") =>
            /\ pc[p] \in HandlerOf(req[p].method).pcs \cup {"done"}
            /\ pc[p] = "done" => resp[p].code \in HandlerOf(req[p].method).codes
            /\ req[p].method \notin {"GET", "POST", "PUT", "DELETE"} =>
                /\ pc[p] = "done"
                /\ resp[p] = HttpError("Unsupported method", StatusMethodNotAllowed)
                /\ mutexW # p
                /\ p \notin mutexR
                /\ ~wrote[p]

\* a PATCH has been rejected while another goroutine holds the mutex
C9_Witness ==
    \E p \in Proc :
        /\ req[p].method = "PATCH"
        /\ req[p].key = "a"
        /\ pc[p] = "done"
        /\ resp[p].code = StatusMethodNotAllowed
        /\ mutexW \notin {p, NoProc}

\* C10: a key is in the map exactly when the reference store has a value for
\* it, that is when a POST or PUT has put the key and no DELETE has removed
\* it since.
C10_PresentIffInserted ==
    \A k \in Keys : MapHas(storage, k) <=> ref[k] # Absent

\* one key has been deleted after its insertion while the other is present
C10_Witness ==
    \E p \in Proc :
        /\ pc[p] = "del_unlock"
        /\ resp[p].code = StatusNoContent
        /\ ~MapHas(storage, req[p].key)
        /\ storage # EmptyMap

\* C11: in sequential use every call that has returned reports the
\* outcome the reference map gives it, and whenever no call is in progress
\* the map holds exactly the entries of the reference map.
C11_RefinesReferenceMap ==
    /\ \A p \in Proc : pc[p] = "done" => OutcomeOf(resp[p]) = seqRef.out
    /\ (\A p \in Proc : pc[p] \in {"idle", "done"}) =>
        \A k \in Keys :
            /\ MapHas(storage, k) <=> seqRef.store[k] # Absent
            /\ MapHas(storage, k) => storage[k] = seqRef.store[k]

\* the scenario's second Create: AlreadyExists, and the first value stays
C11_Witness ==
    \E p \in Proc :
        /\ pc[p] = "done"
        /\ req[p].method = "POST"
        /\ seqRef.out = AlreadyExists
        /\ MapHas(storage, req[p].key)
        /\ storage[req[p].key] # Decode(req[p].body).value

WriteSection ==
    {"set_check", "set_decode", "set_store", "set_unlock",
     "put_store", "put_unlock", "del_check", "del_delete", "del_unlock"}
ReadSection == {"get_read", "get_runlock"}

\* positions whose next statement reads or writes the map
MapAccess ==
    {"set_check", "set_store", "put_store", "del_check", "del_delete", "get_read"}

Writers == {p \in Proc : pc[p] \in WriteSection}
Readers == {p \in Proc : pc[p] \in ReadSection}

\* C13: at most one goroutine is inside a write critical section, and then
\* none is inside a read critical section; a goroutine about to look up,
\* insert or delete in the map holds the mutex, for reading in getHandler
\* and for writing in the three other handlers.
C13_LockDiscipline ==
    /\ Cardinality(Writers) <= 1
    /\ Writers # {} => Readers = {}
    /\ \A p \in Proc :
        pc[p] \in MapAccess =>
            IF req[p].method = "GET"
            THEN p \in mutexR /\ mutexW = NoProc
            ELSE mutexW = p /\ mutexR = {}

\* a writer is about to insert while a reader and a writer wait at the mutex
C13_Witness ==
    \E p, q \in Proc :
        /\ pc[p] = "put_store"
        /\ pc[q] \in {"get_rlock", "set_lock", "del_lock"}
        /\ req[q].key = req[p].key

\* C14: from its existence check to its insert a POST holds the mutex alone:
\* the key is still absent at the insert, the map is what it was when the
\* POST got the mutex, and no other goroutine is at a map access.
C14_CreateAtomic ==
    \A p \in Proc :
        pc[p] \in {"set_decode", "set_store"} =>
            /\ ~MapHas(storage, req[p].key)
            /\ storage = pre[p]
            /\ mutexW = p
            /\ \A q \in Proc \ {p} : pc[q] \notin MapAccess

\* a POST is about to insert while a PUT on the same key waits at the mutex
C14_Witness ==
    \E p, q \in Proc :
        /\ pc[p] = "set_store"
        /\ pc[q] = "put_lock"
        /\ req[q].key = req[p].key

\* C15: no goroutine decodes a request body while it holds the mutex.
C15_NoDecodeUnderLock ==
    \A p \in Proc :
        pc[p] \in {"set_decode", "put_decode"} => (mutexW # p /\ p \notin mutexR)

\* positions at which a goroutine is blocked until it gets the mutex
LockWait == {"set_lock", "put_lock", "del_lock", "get_rlock"}

\* some goroutine waits for the mutex and no goroutine can take a step
Stuck ==
    /\ \E p \in Proc : pc[p] \in LockWait
    /\ ~ENABLED (\E q \in Proc : Steps(q))

\* C16: every request that has been taken up eventually returns, and in no
\* state does a goroutine wait for the mutex while no goroutine can step.
C16_EveryRequestReturns ==
    /\ \A p \in Proc : (pc[p] # "idle") ~> (pc[p] = "done")
    /\ []~Stuck

\* a writer waits for the mutex that another writer holds
C16_Witness ==
    \E p, q \in Proc :
        /\ pc[p] \in {"set_lock", "put_lock", "del_lock"}
        /\ mutexW = q
        /\ q # p

\* C17: a GET waiting at RLock can take the mutex whenever no writer holds
\* it and no writer waits for it, however many readers hold it.
C17_ReadsShare ==
    \A p \in Proc :
        (/\ pc[p] = "get_rlock"
         /\ mutexW = NoProc
         /\ \A q \in Proc : pc[q] \notin {"set_lock", "put_lock", "del_lock"})
            => ENABLED getRLock(p)

\* all goroutines are inside the read critical section together
C17_Witness ==
    /\ Cardinality(Readers) >= 2
    /\ Readers \subseteq mutexR
    /\ Readers = Proc

\* C18: a goroutine that has returned, or runs no handler, holds the mutex
\* in no mode, whatever status it returned with; when no handler is running
\* the mutex is free.
C18_LockReleased ==
    /\ \A p \in Proc :
        pc[p] \in {"idle", "done"} => (mutexW # p /\ p \notin mutexR)
    /\ (\A p \in Proc : pc[p] \in {"idle", "done"}) =>
        (mutexW = NoProc /\ mutexR = {})

\* a POST has returned 400 from inside its critical section, a DELETE 404
C18_Witness ==
    \E p, q \in Proc :
        /\ pc[p] = "done" /\ req[p].method = "POST" /\ req[p].key # ""
        /\ resp[p].code = StatusBadRequest
        /\ pc[q] = "done" /\ req[q].method = "DELETE"
        /\ resp[q].code = StatusNotFound
        /\ mutexW = NoProc /\ mutexR = {}

\* C19: a key whose value is null is present: it is in the map as long as
\* the reference store holds null for it, a GET that looked it up answers
\* 200 with null, a POST on it answers 409 and a DELETE on it answers 204
\* and removes it.
C19_NullIsPresent ==
    /\ \A k \in Keys : ref[k] = Nil => k \in DOMAIN storage
    /\ \A p \in Proc :
        /\ (pc[p] = "done" /\ req[p].method = "GET" /\ lin[p] = Nil) =>
            (resp[p].code = StatusOK /\ resp[p].json = "null")
        /\ (pc[p] = "set_unlock" /\ req[p].key \in DOMAIN pre[p]
                /\ pre[p][req[p].key] = Nil) => resp[p].code = StatusConflict
        /\ (pc[p] = "del_unlock" /\ req[p].key \in DOMAIN pre[p]
                /\ pre[p][req[p].key] = Nil) =>
            (resp[p].code = StatusNoContent /\ req[p].key \notin DOMAIN storage)

\* a DELETE has removed a key that held null
C19_Witness ==
    \E p \in Proc :
        /\ pc[p] = "del_unlock"
        /\ req[p].key \in DOMAIN pre[p]
        /\ pre[p][req[p].key] = Nil
        /\ resp[p].code = StatusNoContent

\* C20: at the end of the critical section of a POST, PUT or DELETE every
\* key other than its own is present or absent as it was when the handler
\* got the mutex, with the same value; a GET executes no assignment to and
\* no delete from the map.
C20_OwnKeyOnly ==
    \A p \in Proc :
        /\ pc[p] \in {"set_unlock", "put_unlock", "del_unlock"} =>
            \A k \in Keys \ {req[p].key} :
                /\ k \in DOMAIN storage <=> k \in DOMAIN pre[p]
                /\ k \in DOMAIN storage => storage[k] = pre[p][k]
        /\ req[p].method = "GET" => ~wrote[p]

\* a POST has inserted its key while the other key is present
C20_Witness ==
    \E p \in Proc :
        /\ pc[p] = "set_unlock"
        /\ resp[p].code = StatusCreated
        /\ \E k \in Keys \ {req[p].key} : k \in DOMAIN storage

=============================================================================
